---- MODULE Spec2Model ----
(***************************************************************************)
(* Model of DrawerPopup (src/src/DrawerPopup.tsx): one overlay instance,   *)
(* its effects on the scroll lock and on the ancestor stacking context,    *)
(* the panel transition driven through CSSMotion, the focus trap and the   *)
(* push distance resolution.                                               *)
(***************************************************************************)
EXTENDS Integers, Sequences, FiniteSets, TLC

\* ---------------------------------------------------------------- bounds
\* Largest number of completion reports of the panel transition in flight.
MaxPending == 3
\* Number of overlays in the nesting tree.
NumOverlays == 5
\* Largest number of focusable elements in the panel content.
MaxContent == 2

\* ------------------------------------------------------------- variables
VARIABLES
  alive,         \* the instance is mounted
  props,         \* DrawerPopupProps of the last render
  parentPushed,  \* `pushed` state of the ancestor overlay (its setPushed)
  locked,        \* the instance's scroll locker currently holds the lock
  panel,         \* the panel CSSMotion: [status, mounted]
  pending,       \* completion reports of the panel transition in flight
  maskEl,        \* the mask CSSMotion: [status, mounted]
  calls,         \* calls made on collaborators by the last handler
  lastEvent      \* the event the last handler handled

lifeVars == <<alive, props, parentPushed, locked, panel, pending, maskEl, calls,
             lastEvent>>

VARIABLES
  drawers,       \* nesting tree: per overlay [mounted, open, pushed]
  stack          \* nesting tree: per overlay [push, pushDistance, context]

nestVars == <<drawers, stack>>

VARIABLES
  push,          \* the `push` prop of the last render
  parentContext, \* the value of the nearest DrawerContext above the overlay
  placement,     \* the `placement` prop
  pushed,        \* the overlay's own `pushed` state
  pushDistance,  \* the push distance resolved by the last render
  wrapperStyle   \* the transform of the panel wrapper in the last render

pushVars == <<push, parentContext, placement, pushed, pushDistance, wrapperStyle>>

VARIABLES
  focusProps,    \* [open, autoFocus, keyboard, onClose] of the last render
  nContent,      \* number of focusable elements in the panel content
  activeElement, \* document.activeElement
  keyEvent,      \* the last keyboard event: [keyCode, shiftKey]
  focusBefore,   \* document.activeElement when the last event occurred
  handlerFocus,  \* document.activeElement when onPanelKeyDown returned
  closeCalls,    \* the events onClose was called with by the last handler
  focusCalls     \* number of panelRef focus() calls of the last handler

focusVars == <<focusProps, nContent, activeElement, keyEvent, focusBefore,
               handlerFocus, closeCalls, focusCalls>>

vars == <<lifeVars, nestVars, pushVars, focusVars>>

Placement == {"left", "right", "top", "bottom"}

\* The props of an instance that the lifecycle depends on.  scrollLocker,
\* parentContext, afterOpenChange and onClose are optional collaborators: TRUE
\* when supplied.
PropsSet ==
  [open : BOOLEAN, mask : BOOLEAN, forceRender : BOOLEAN,
   placement : Placement, scrollLocker : BOOLEAN,
   parentContext : BOOLEAN, afterOpenChange : BOOLEAN,
   onClose : BOOLEAN, maskClosable : BOOLEAN, keyboard : BOOLEAN]

Event(kind, v) == [kind |-> kind, v |-> v]

\* Number of calls c among the calls cs; whether there is one.
Count(cs, c) == Cardinality({i \in DOMAIN cs : cs[i] = c})
Has(cs, c) == \E i \in DOMAIN cs : cs[i] = c

\* ------------------------------------------------ effects of DrawerPopup
\* "Tell parent to push" effect, deps [open].
TellParentCalls(p) ==
  IF ~p.parentContext THEN <<>>
  ELSE IF p.open THEN <<"push">> ELSE <<"pull">>

\* LockCalls ignoring the mask.
LockCallsIgnoringMask(p) ==
  IF p.open /\ p.scrollLocker THEN <<"lock">> ELSE <<>>

\* "Lock window scroll" effect, deps [open, mask].
LockCalls(p) ==
  IF p.open /\ p.mask /\ p.scrollLocker THEN <<"lock">> ELSE <<>>

\* CleanUpCalls that forgets the ancestor.
CleanUpCallsNoPull(p) ==
  IF p.scrollLocker THEN <<"unLock">> ELSE <<>>

\* "Clean up" effect: the destructor that runs on unmount.
CleanUpCalls(p) ==
  (IF p.scrollLocker THEN <<"unLock">> ELSE <<>>) \o
  (IF p.parentContext THEN <<"pull">> ELSE <<>>)

\* onVisibleChanged with afterOpenChange moved inside the leave branch.
onVisibleChangedLeaveOnly(p, nextVisible) ==
  IF nextVisible THEN <<>>
  ELSE (IF p.afterOpenChange THEN <<"afterOpenChange(false)">> ELSE <<>>) \o
       (IF p.scrollLocker THEN <<"unLock">> ELSE <<>>)

\* onVisibleChanged that returns early without afterOpenChange.
onVisibleChangedGuarded(p, nextVisible) ==
  IF ~p.afterOpenChange THEN <<>>
  ELSE <<IF nextVisible THEN "afterOpenChange(true)"
                        ELSE "afterOpenChange(false)">> \o
       (IF ~nextVisible /\ p.scrollLocker THEN <<"unLock">> ELSE <<>>)

\* onVisibleChanged handed to the panel CSSMotion.
onVisibleChanged(p, nextVisible) ==
  (IF p.afterOpenChange
     THEN <<IF nextVisible THEN "afterOpenChange(true)"
                           ELSE "afterOpenChange(false)">>
     ELSE <<>>) \o
  (IF ~nextVisible /\ p.scrollLocker THEN <<"unLock">> ELSE <<>>)

\* panelMotionProps with the panel shown only behind a mask.
panelMotionPropsMasked(p) ==
  [visible |-> p.open /\ p.mask, forceRender |-> p.forceRender,
   removeOnLeave |-> FALSE]

\* panelMotionProps without removeOnLeave={false}.
panelMotionPropsRemoveOnLeave(p) ==
  [visible |-> p.open, forceRender |-> p.forceRender, removeOnLeave |-> TRUE]

\* Props handed to the panel CSSMotion.
panelMotionProps(p) ==
  [visible |-> p.open, forceRender |-> p.forceRender, removeOnLeave |-> FALSE]

\* Effects that run on the first render, in the order they are declared.
MountCalls(p) == TellParentCalls(p) \o LockCalls(p)

\* Effects that run after a re-render from props p to props q: an effect runs
\* when one of its deps changed.
UpdateCalls(p, q) ==
  (IF q.open # p.open THEN TellParentCalls(q) ELSE <<>>) \o
  (IF q.open # p.open \/ q.mask # p.mask THEN LockCalls(q) ELSE <<>>)

\* ------------------------------------------------------- collaborators
\* mergedContext.push / mergedContext.pull of the ancestor: setPushed.
RECURSIVE ApplyPushed(_, _)
ApplyPushed(state, cs) ==
  IF cs = <<>> THEN state
  ELSE ApplyPushed(IF Head(cs) = "push" THEN TRUE
                   ELSE IF Head(cs) = "pull" THEN FALSE
                   ELSE state, Tail(cs))

\* Scroll lock: lock() and unLock() are idempotent.
RECURSIVE ApplyLock(_, _)
ApplyLock(held, cs) ==
  IF cs = <<>> THEN held
  ELSE ApplyLock(IF Head(cs) = "lock" THEN TRUE
                 ELSE IF Head(cs) = "unLock" THEN FALSE
                 ELSE held, Tail(cs))

\* Transition engine: state of an element right after its first render.
EngineMount(mp) ==
  [status |-> IF mp.visible THEN "Entering" ELSE "Hidden",
   mounted |-> mp.visible \/ mp.forceRender]

\* Transition engine: the visible prop flipped to mp.visible.
EngineFlip(el, mp) ==
  [status |-> IF mp.visible THEN "Entering" ELSE "Leaving",
   mounted |-> el.mounted \/ mp.visible]

\* Transition engine: the run towards v completed.  A run that is no longer
\* the requested one leaves the element as it is.
EngineSettle(el, mp, v) ==
  IF v # mp.visible THEN el
  ELSE [status |-> IF v THEN "Visible" ELSE "Hidden",
        mounted |-> IF v THEN TRUE
                    ELSE (el.mounted /\ ~mp.removeOnLeave) \/ mp.forceRender]

\* An element that is not rendered.
NoElement == [status |-> "Hidden", mounted |-> FALSE]

\* Props handed to the mask CSSMotion: removeOnLeave keeps its default.
maskMotionProps(p) ==
  [visible |-> p.open, forceRender |-> FALSE, removeOnLeave |-> TRUE]

\* maskNode after a render with props q that follows a render with props p
\* (p = q on the first render): mask && <CSSMotion visible={open}>.
MaskRender(el, p, q) ==
  IF ~q.mask THEN NoElement
  ELSE IF ~p.mask \/ p = q THEN EngineMount(maskMotionProps(q))
  ELSE IF q.open # p.open THEN EngineFlip(el, maskMotionProps(q))
  ELSE el

\* ---------------------------------------------------------------- Init
InitLife ==
  /\ alive = TRUE
  /\ props \in PropsSet
  /\ calls = MountCalls(props)
  /\ parentPushed = ApplyPushed(FALSE, calls)
  /\ locked = ApplyLock(FALSE, calls)
  /\ panel = EngineMount(panelMotionProps(props))
  /\ pending = IF props.open THEN <<TRUE>> ELSE <<>>
  /\ maskEl = MaskRender(NoElement, props, props)
  /\ lastEvent = Event("mount", props.open)

\* -------------------------------------------------------------- actions
\* A new instance is rendered for the first time, by the same caller: with
\* the collaborators and the static props of the instance it replaces.
Mount ==
  /\ ~alive
  /\ \E o \in BOOLEAN, m \in BOOLEAN :
     LET p == [props EXCEPT !.open = o, !.mask = m] IN
       /\ props' = p
       /\ calls' = MountCalls(p)
       /\ panel' = EngineMount(panelMotionProps(p))
       /\ pending' = IF p.open THEN <<TRUE>> ELSE <<>>
       /\ maskEl' = MaskRender(NoElement, p, p)
       /\ lastEvent' = Event("mount", p.open)
  /\ alive' = TRUE
  /\ parentPushed' = ApplyPushed(parentPushed, calls')
  /\ locked' = ApplyLock(locked, calls')
  /\ UNCHANGED <<nestVars, pushVars, focusVars>>

\* The caller re-renders the instance with `open` and/or `mask` changed.
SetProps ==
  /\ alive
  /\ \E o \in BOOLEAN, m \in BOOLEAN :
       /\ <<o, m>> # <<props.open, props.mask>>
       /\ o # props.open => Len(pending) < MaxPending
       /\ props' = [props EXCEPT !.open = o, !.mask = m]
  /\ calls' = UpdateCalls(props, props')
  /\ parentPushed' = ApplyPushed(parentPushed, calls')
  /\ locked' = ApplyLock(locked, calls')
  /\ IF props'.open # props.open
       THEN /\ panel' = EngineFlip(panel, panelMotionProps(props'))
            /\ pending' = Append(pending, props'.open)
       ELSE UNCHANGED <<panel, pending>>
  /\ maskEl' = MaskRender(maskEl, props, props')
  /\ lastEvent' = Event(IF props'.open # props.open THEN "props" ELSE "mask",
                        props'.open)
  /\ UNCHANGED <<alive, nestVars, pushVars, focusVars>>

\* The transition engine reports the completion of the oldest run.
DeliverReport ==
  /\ alive
  /\ pending # <<>>
  /\ calls' = onVisibleChanged(props, Head(pending))
  /\ locked' = ApplyLock(locked, calls')
  /\ panel' = EngineSettle(panel, panelMotionProps(props), Head(pending))
  /\ pending' = Tail(pending)
  /\ lastEvent' = Event("report", Head(pending))
  /\ UNCHANGED <<alive, props, parentPushed, maskEl, nestVars, pushVars, focusVars>>

\* The report of a run that was interrupted never arrives.
CancelReport ==
  /\ alive
  /\ Len(pending) > 1
  /\ pending' = Tail(pending)
  /\ calls' = <<>>
  /\ lastEvent' = Event("cancel", Head(pending))
  /\ UNCHANGED <<alive, props, parentPushed, locked, panel, maskEl, nestVars,
                 pushVars, focusVars>>

\* The instance is torn down.
Unmount ==
  /\ alive
  /\ alive' = FALSE
  /\ calls' = CleanUpCalls(props)
  /\ parentPushed' = ApplyPushed(parentPushed, calls')
  /\ locked' = ApplyLock(locked, calls')
  /\ panel' = NoElement
  /\ pending' = <<>>
  /\ maskEl' = NoElement
  /\ lastEvent' = Event("unmount", props.open)
  /\ UNCHANGED <<props, nestVars, pushVars, focusVars>>

\* The transition engine completes the run of the mask.  No handler of the
\* overlay is attached to the mask transition.
MaskSettle ==
  /\ alive
  /\ maskEl.status \in {"Entering", "Leaving"}
  /\ maskEl' = EngineSettle(maskEl, maskMotionProps(props),
                            maskEl.status = "Entering")
  /\ calls' = <<>>
  /\ lastEvent' = Event("maskSettle", maskEl.status = "Entering")
  /\ UNCHANGED <<alive, props, parentPushed, locked, panel, pending, nestVars,
                 pushVars, focusVars>>

\* ------------------------------------------------------ push distance
\* JavaScript values a distance can hold.
Undefined == [t |-> "undefined", v |-> 0]
Num(n) == [t |-> "number", v |-> n]
Str(n) == [t |-> "string", v |-> n]   \* the string of the digits of n

DefaultPushDistance == 180

Distances == {0, 40, 120, 180}
Values == {Undefined} \cup {Num(n) : n \in Distances} \cup {Str(80)}

\* The `push` prop: absent, a boolean, or a PushConfig object.
PushProps ==
  {[k |-> k, distance |-> Undefined] : k \in {"undefined", "false", "true"}}
  \cup {[k |-> "object", distance |-> d] : d \in Values}

\* React.useContext(DrawerContext): null without an ancestor provider.
Contexts ==
  {[k |-> "null", pushDistance |-> Undefined]}
  \cup {[k |-> "context", pushDistance |-> d] : d \in Values}

\* a ?? b
Nullish(a, b) == IF a = Undefined THEN b ELSE a

\* "Merge push distance": the pushConfig the push prop stands for.
MergePushConfig(pu) ==
  IF pu.k = "false" THEN [distance |-> Num(0)]
  ELSE IF pu.k = "true" THEN [distance |-> Undefined]
  ELSE IF pu.k = "undefined" THEN [distance |-> Undefined]
  ELSE [distance |-> pu.distance]

\* a || b
Or(a, b) == IF a \in {Undefined, Num(0)} THEN b ELSE a

\* ResolvePushDistance with || in place of ??.
ResolvePushDistanceOr(pu, ctx) ==
  Or(Or(MergePushConfig(pu).distance,
        IF ctx.k = "null" THEN Undefined ELSE ctx.pushDistance),
     Num(DefaultPushDistance))

\* pushConfig?.distance ?? parentContext?.pushDistance ?? 180
ResolvePushDistance(pu, ctx) ==
  Nullish(Nullish(MergePushConfig(pu).distance,
                  IF ctx.k = "null" THEN Undefined ELSE ctx.pushDistance),
          Num(DefaultPushDistance))

\* No transform on the wrapper.
NoTransform == [axis |-> "none", px |-> 0]

\* JavaScript truthiness of a distance: 0 and undefined are falsy.
Truthy(d) == d \notin {Undefined, Num(0)}

\* ComputeWrapperStyle that shifts every placement in the positive direction.
ComputeWrapperStyleUnsigned(isPushed, distance, place) ==
  IF isPushed /\ Truthy(distance)
    THEN [axis |-> IF place \in {"top", "bottom"} THEN "Y" ELSE "X",
          px |-> distance.v]
    ELSE NoTransform

\* wrapperStyle.transform: translateY(px) or translateX(px), px being the
\* number `${pushDistance}` or `${-pushDistance}` stands for.
ComputeWrapperStyle(isPushed, distance, place) ==
  IF isPushed /\ Truthy(distance)
    THEN CASE place = "top" -> [axis |-> "Y", px |-> distance.v]
           [] place = "bottom" -> [axis |-> "Y", px |-> 0 - distance.v]
           [] place = "left" -> [axis |-> "X", px |-> distance.v]
           [] OTHER -> [axis |-> "X", px |-> 0 - distance.v]
    ELSE NoTransform

\* ------------------------------------------------------- nesting tree
Overlays == 1 .. NumOverlays

\* The overlay whose DrawerContext.Provider is the nearest one above overlay
\* i; 0 when there is none.  Overlays 2 and 3 are nested directly in overlay
\* 1, overlays 4 and 5 in overlay 2, and so on.
ParentOf(i) == i \div 2

RECURSIVE IsUnder(_, _)
IsUnder(i, a) ==
  IF i = 0 THEN FALSE ELSE IF i = a THEN TRUE ELSE IsUnder(ParentOf(i), a)

Unmounted == [mounted |-> FALSE, open |-> FALSE, pushed |-> FALSE]

\* CallParent that hands the calls on to every ancestor.
RECURSIVE CallAncestors(_, _, _)
CallAncestors(ds, i, cs) ==
  IF ParentOf(i) = 0 THEN ds
  ELSE CallAncestors([ds EXCEPT ![ParentOf(i)].pushed = ApplyPushed(@, cs)],
                     ParentOf(i), cs)

\* The state of the overlays after overlay i ran the calls cs on the context
\* of its parent.
CallParent(ds, i, cs) ==
  IF ParentOf(i) = 0 THEN ds
  ELSE [ds EXCEPT ![ParentOf(i)].pushed = ApplyPushed(@, cs)]

\* An overlay without push config, as rendered without ancestor.
NoStack ==
  [push |-> [k |-> "undefined", distance |-> Undefined],
   pushDistance |-> Num(DefaultPushDistance),
   context |-> Num(DefaultPushDistance)]

\* The push props the overlays of the tree are rendered with.
NestPushProps ==
  {[k |-> "undefined", distance |-> Undefined],
   [k |-> "false", distance |-> Undefined],
   [k |-> "object", distance |-> Num(40)]}

\* React.useContext(DrawerContext) in overlay i: the mergedContext its parent
\* provides, null without a parent.
ContextOf(st, i) ==
  IF ParentOf(i) = 0 THEN [k |-> "null", pushDistance |-> Undefined]
  ELSE [k |-> "context", pushDistance |-> st[ParentOf(i)].context]

\* mergedContext memoized on nothing: the value of the first render is kept.
mergedContextStale(prevContext, prevDistance, distance) == prevContext

\* mergedContext, memoized on [pushDistance]: the pushDistance it publishes.
mergedContext(prevContext, prevDistance, distance) ==
  IF distance # prevDistance THEN distance ELSE prevContext

\* First render of overlay i with push prop pu.
FirstRender(st, i, pu) ==
  LET pd == ResolvePushDistance(pu, ContextOf(st, i))
  IN [st EXCEPT ![i] = [push |-> pu, pushDistance |-> pd, context |-> pd]]

\* Re-render of the mounted overlays k, k + 1, ...: a parent renders before
\* the overlays nested in it, which consume the context it provides.
RECURSIVE Rerender(_, _, _)
Rerender(st, ds, k) ==
  IF k > NumOverlays THEN st
  ELSE IF ~ds[k].mounted THEN Rerender(st, ds, k + 1)
  ELSE LET pd == ResolvePushDistance(st[k].push, ContextOf(st, k))
       IN Rerender(
            [st EXCEPT ![k].pushDistance = pd,
                       ![k].context =
                         mergedContext(st[k].context, st[k].pushDistance, pd)],
            ds, k + 1)

NestIdle ==
  /\ drawers = [i \in Overlays |-> Unmounted]
  /\ stack = [i \in Overlays |-> NoStack]

InitNest ==
  \E o \in BOOLEAN :
    /\ drawers = [i \in Overlays |->
                   IF i = 1 THEN [mounted |-> TRUE, open |-> o, pushed |-> FALSE]
                   ELSE Unmounted]
    /\ \E pu \in NestPushProps :
         stack = FirstRender([i \in Overlays |-> NoStack], 1, pu)

\* Overlay i is rendered for the first time, inside its mounted parent.
NestMount(i) ==
  /\ ~drawers[i].mounted
  /\ ParentOf(i) # 0 => drawers[ParentOf(i)].mounted
  /\ \E o \in BOOLEAN :
       drawers' = CallParent(
         [drawers EXCEPT ![i] = [mounted |-> TRUE, open |-> o, pushed |-> FALSE]],
         i, TellParentCalls([parentContext |-> ParentOf(i) # 0, open |-> o]))
  /\ \E pu \in NestPushProps : stack' = FirstRender(stack, i, pu)
  /\ UNCHANGED <<lifeVars, pushVars, focusVars>>

\* The `open` prop of overlay i flips.
NestSetOpen(i) ==
  /\ drawers[i].mounted
  /\ drawers' = CallParent(
       [drawers EXCEPT ![i].open = ~@],
       i, TellParentCalls([parentContext |-> ParentOf(i) # 0,
                           open |-> ~drawers[i].open]))
  /\ UNCHANGED stack
  /\ UNCHANGED <<lifeVars, pushVars, focusVars>>

\* Overlay i is torn down, with everything rendered inside it.
NestUnmount(i) ==
  /\ drawers[i].mounted
  /\ drawers' = CallParent(
       [j \in Overlays |-> IF IsUnder(j, i) THEN Unmounted ELSE drawers[j]],
       i, CleanUpCalls([scrollLocker |-> FALSE,
                        parentContext |-> ParentOf(i) # 0]))
  /\ stack' = [j \in Overlays |-> IF IsUnder(j, i) THEN NoStack ELSE stack[j]]
  /\ UNCHANGED <<lifeVars, pushVars, focusVars>>

\* Overlay i is rendered again with another push prop; the overlays nested in
\* it render again under the context it provides.
NestRender(i) ==
  /\ drawers[i].mounted
  /\ \E pu \in NestPushProps :
       /\ pu # stack[i].push
       /\ stack' = Rerender([stack EXCEPT ![i].push = pu], drawers, 1)
  /\ UNCHANGED <<drawers, lifeVars, pushVars, focusVars>>

LifeIdle ==
  /\ alive = FALSE
  /\ props = [open |-> FALSE, mask |-> FALSE, forceRender |-> FALSE,
              placement |-> "right", scrollLocker |-> FALSE,
              parentContext |-> FALSE, afterOpenChange |-> FALSE,
              onClose |-> FALSE, maskClosable |-> FALSE, keyboard |-> FALSE]
  /\ parentPushed = FALSE
  /\ locked = FALSE
  /\ panel = NoElement
  /\ pending = <<>>
  /\ maskEl = NoElement
  /\ calls = <<>>
  /\ lastEvent = Event("unmount", FALSE)

\* ------------------------------------------------- push of one overlay
InitPush ==
  /\ push \in PushProps
  /\ parentContext \in Contexts
  /\ placement \in Placement
  /\ pushed = FALSE
  /\ pushDistance = ResolvePushDistance(push, parentContext)
  /\ wrapperStyle = ComputeWrapperStyle(pushed, pushDistance, placement)

PushIdle ==
  /\ push = [k |-> "undefined", distance |-> Undefined]
  /\ parentContext = [k |-> "null", pushDistance |-> Undefined]
  /\ placement = "right"
  /\ pushed = FALSE
  /\ pushDistance = Num(DefaultPushDistance)
  /\ wrapperStyle = NoTransform

\* The overlay is rendered again with another push prop or under another
\* value of the ancestor context.
RenderPush ==
  /\ \E pu \in PushProps, ctx \in Contexts :
       /\ <<pu, ctx>> # <<push, parentContext>>
       /\ pu = push \/ ctx = parentContext
       /\ push' = pu
       /\ parentContext' = ctx
  /\ pushDistance' = ResolvePushDistance(push', parentContext')
  /\ wrapperStyle' = ComputeWrapperStyle(pushed, pushDistance', placement)
  /\ UNCHANGED <<placement, pushed, lifeVars, nestVars, focusVars>>

\* mergedContext.push(), called by a nested overlay.
ContextPush ==
  /\ pushed' = ApplyPushed(pushed, <<"push">>)
  /\ pushed' # pushed
  /\ wrapperStyle' = ComputeWrapperStyle(pushed', pushDistance, placement)
  /\ UNCHANGED <<push, parentContext, placement, pushDistance, lifeVars, nestVars, focusVars>>

\* mergedContext.pull(), called by a nested overlay.
ContextPull ==
  /\ pushed' = ApplyPushed(pushed, <<"pull">>)
  /\ pushed' # pushed
  /\ wrapperStyle' = ComputeWrapperStyle(pushed', pushDistance, placement)
  /\ UNCHANGED <<push, parentContext, placement, pushDistance, lifeVars, nestVars, focusVars>>

\* ---------------------------------------------------------- focus trap
El(name) == [el |-> name, i |-> 0]

\* The focusable elements in document order: an element before the overlay,
\* the root div, the start sentinel, the focusable elements of the panel
\* content, the end sentinel, an element after the overlay.
DomOrder(n) ==
  <<El("before"), El("root"), El("sentinelStart")>>
    \o [k \in 1 .. n |-> [el |-> "content", i |-> k]]
    \o <<El("sentinelEnd"), El("after")>>

\* tabIndex of the rendered elements: -1 on the root, 0 on the sentinels.
TabIndex(e) == IF e.el = "root" THEN -1 ELSE 0

\* The element is the overlay root or inside it.
Inside(e) == e.el \notin {"before", "after"}

IndexOf(e, n) == CHOOSE k \in DOMAIN DomOrder(n) : DomOrder(n)[k] = e

Tabbable(n) == {k \in DOMAIN DomOrder(n) : TabIndex(DomOrder(n)[k]) >= 0}

Min(S) == CHOOSE x \in S : \A y \in S : x <= y
Max(S) == CHOOSE x \in S : \A y \in S : x >= y

\* The default action of the Tab key, which the handler does not prevent:
\* focus moves to the next (with shift: the previous) tabbable element in
\* document order, wrapping around at the ends of the document.
DefaultTab(e, shiftKey, n) ==
  LET k == IndexOf(e, n)
      after == {j \in Tabbable(n) : j > k}
      before == {j \in Tabbable(n) : j < k}
  IN IF shiftKey
       THEN DomOrder(n)[IF before = {} THEN Max(Tabbable(n)) ELSE Max(before)]
       ELSE DomOrder(n)[IF after = {} THEN Min(Tabbable(n)) ELSE Min(after)]

KeyCodes == {"TAB", "ESC", "ENTER"}

\* onPanelKeyDown that does not look at shiftKey.
onPanelKeyDownNoShift(ev, active, fp) ==
  IF ev.keyCode = "TAB"
    THEN [focus |-> IF active = El("sentinelEnd") THEN El("sentinelStart")
                    ELSE IF active = El("sentinelStart") THEN El("sentinelEnd")
                    ELSE active,
          close |-> <<>>]
  ELSE IF ev.keyCode = "ESC"
    THEN [focus |-> active,
          close |-> IF fp.onClose /\ fp.keyboard THEN <<ev>> ELSE <<>>]
  ELSE [focus |-> active, close |-> <<>>]

\* onPanelKeyDown that closes on ESC whatever `keyboard` is.
onPanelKeyDownAlwaysClose(ev, active, fp) ==
  IF ev.keyCode = "TAB"
    THEN [focus |-> IF ~ev.shiftKey /\ active = El("sentinelEnd")
                      THEN El("sentinelStart")
                    ELSE IF ev.shiftKey /\ active = El("sentinelStart")
                      THEN El("sentinelEnd")
                    ELSE active,
          close |-> <<>>]
  ELSE IF ev.keyCode = "ESC"
    THEN [focus |-> active, close |-> IF fp.onClose THEN <<ev>> ELSE <<>>]
  ELSE [focus |-> active, close |-> <<>>]

\* onPanelKeyDown: the focus it leaves and the events it calls onClose with.
onPanelKeyDown(ev, active, fp) ==
  IF ev.keyCode = "TAB"
    THEN [focus |-> IF ~ev.shiftKey /\ active = El("sentinelEnd")
                      THEN El("sentinelStart")
                    ELSE IF ev.shiftKey /\ active = El("sentinelStart")
                      THEN El("sentinelEnd")
                    ELSE active,
          close |-> <<>>]
  ELSE IF ev.keyCode = "ESC"
    THEN [focus |-> active,
          close |-> IF fp.onClose /\ fp.keyboard THEN <<ev>> ELSE <<>>]
  ELSE [focus |-> active, close |-> <<>>]

\* "Auto Focus" effect, deps [open, autoFocus]: the focus it leaves.
AutoFocus(fp, active) ==
  IF fp.open /\ fp.autoFocus THEN El("root") ELSE active

\* "Auto Focus" effect: the number of focus() calls of one run.
AutoFocusCalls(fp) == IF fp.open /\ fp.autoFocus THEN 1 ELSE 0

\* The effect without a deps array: it runs after every render.
AutoFocusDepsNone(p, q) == TRUE

\* The deps [open, autoFocus] of the effect changed from render p to render q.
AutoFocusDeps(p, q) == q.open # p.open \/ q.autoFocus # p.autoFocus

FocusPropsSet ==
  [open : BOOLEAN, autoFocus : BOOLEAN, keyboard : BOOLEAN, onClose : BOOLEAN]

NoKey == [keyCode |-> "none", shiftKey |-> FALSE]

InitFocus ==
  /\ focusProps \in FocusPropsSet
  /\ nContent \in 0 .. MaxContent
  /\ activeElement = AutoFocus(focusProps, El("before"))
  /\ keyEvent = NoKey
  /\ focusBefore = El("before")
  /\ handlerFocus = El("before")
  /\ closeCalls = <<>>
  /\ focusCalls = AutoFocusCalls(focusProps)

FocusIdle ==
  /\ focusProps = [open |-> FALSE, autoFocus |-> FALSE, keyboard |-> FALSE,
                   onClose |-> FALSE]
  /\ nContent = 0
  /\ activeElement = El("before")
  /\ keyEvent = NoKey
  /\ focusBefore = El("before")
  /\ handlerFocus = El("before")
  /\ closeCalls = <<>>
  /\ focusCalls = 0

\* A key is pressed.  With the focus inside the overlay root the event reaches
\* onPanelKeyDown; then the browser performs the default action of the key.
KeyDown ==
  /\ \E kc \in KeyCodes, sh \in BOOLEAN :
       keyEvent' = [keyCode |-> kc, shiftKey |-> sh]
  /\ focusBefore' = activeElement
  /\ LET h == IF Inside(activeElement)
                THEN onPanelKeyDown(keyEvent', activeElement, focusProps)
                ELSE [focus |-> activeElement, close |-> <<>>]
     IN /\ handlerFocus' = h.focus
        /\ closeCalls' = h.close
        /\ focusCalls' = 0
        /\ activeElement' = IF keyEvent'.keyCode = "TAB"
                              THEN DefaultTab(h.focus, keyEvent'.shiftKey, nContent)
                              ELSE h.focus
  /\ UNCHANGED <<focusProps, nContent, lifeVars, nestVars, pushVars>>

\* The user focuses the root or an element of the panel content by pointer.
PointerFocus ==
  /\ \E e \in {El("root")} \cup {[el |-> "content", i |-> k] : k \in 1 .. nContent} :
       /\ e # activeElement
       /\ activeElement' = e
  /\ keyEvent' = NoKey
  /\ focusBefore' = activeElement
  /\ handlerFocus' = activeElement
  /\ closeCalls' = <<>>
  /\ focusCalls' = 0
  /\ UNCHANGED <<focusProps, nContent, lifeVars, nestVars, pushVars>>

\* The caller re-renders the overlay with `open` flipped.
FocusSetOpen ==
  /\ focusProps' = [focusProps EXCEPT !.open = ~@]
  /\ IF AutoFocusDeps(focusProps, focusProps')
       THEN /\ activeElement' = AutoFocus(focusProps', activeElement)
            /\ focusCalls' = AutoFocusCalls(focusProps')
       ELSE /\ activeElement' = activeElement
            /\ focusCalls' = 0
  /\ keyEvent' = NoKey
  /\ focusBefore' = activeElement
  /\ handlerFocus' = activeElement
  /\ closeCalls' = <<>>
  /\ UNCHANGED <<nContent, lifeVars, nestVars, pushVars>>

\* The caller re-renders the overlay with another prop changed.
FocusRerender ==
  /\ \E f \in {"autoFocus", "keyboard", "onClose"} :
       focusProps' = [focusProps EXCEPT ![f] = ~@]
  /\ IF AutoFocusDeps(focusProps, focusProps')
       THEN /\ activeElement' = AutoFocus(focusProps', activeElement)
            /\ focusCalls' = AutoFocusCalls(focusProps')
       ELSE /\ activeElement' = activeElement
            /\ focusCalls' = 0
  /\ keyEvent' = NoKey
  /\ focusBefore' = activeElement
  /\ handlerFocus' = activeElement
  /\ closeCalls' = <<>>
  /\ UNCHANGED <<nContent, lifeVars, nestVars, pushVars>>

\* onClick of the mask div: maskClosable && onClose.
maskOnClick(p) == IF p.maskClosable /\ p.onClose THEN <<"onClose">> ELSE <<>>

\* The user clicks the mask.
MaskClick ==
  /\ alive
  /\ maskEl.mounted
  /\ calls' = maskOnClick(props)
  /\ lastEvent' = Event("maskClick", props.open)
  /\ UNCHANGED <<alive, props, parentPushed, locked, panel, pending, maskEl,
                 nestVars, pushVars, focusVars>>

\* The user presses ESC with the focus inside the overlay.
EscKey ==
  /\ alive
  /\ calls' = [k \in DOMAIN onPanelKeyDown([keyCode |-> "ESC", shiftKey |-> FALSE],
                                            El("root"), props).close
                 |-> "onClose"]
  /\ lastEvent' = Event("esc", props.open)
  /\ UNCHANGED <<alive, props, parentPushed, locked, panel, pending, maskEl,
                 nestVars, pushVars, focusVars>>

Init == InitLife /\ NestIdle /\ PushIdle /\ FocusIdle

Next ==
  \/ Mount
  \/ SetProps
  \/ DeliverReport
  \/ CancelReport
  \/ Unmount
  \/ MaskSettle
  \/ MaskClick
  \/ EscKey

Spec == Init /\ [][Next]_vars

\* The transition engine reports every completion it owes: a report in flight
\* is eventually delivered.
SpecFair == Spec /\ WF_vars(DeliverReport)

\* Overlays nested in one another: mount, open, close and unmount events.
NextNest ==
  \/ \E i \in Overlays : NestMount(i)
  \/ \E i \in Overlays : NestSetOpen(i)
  \/ \E i \in Overlays : NestUnmount(i)
  \/ \E i \in Overlays : NestRender(i)

NestInit == InitNest /\ LifeIdle /\ PushIdle /\ FocusIdle

SpecNest == NestInit /\ [][NextNest]_vars

\* Renders of one overlay under every push config and ancestor context.
NextPush ==
  \/ RenderPush
  \/ ContextPush
  \/ ContextPull

PushInit == InitPush /\ LifeIdle /\ NestIdle /\ FocusIdle

SpecPush == PushInit /\ [][NextPush]_vars

\* Keyboard and pointer events on one overlay.
NextFocus ==
  \/ KeyDown
  \/ PointerFocus
  \/ FocusSetOpen
  \/ FocusRerender

FocusInit == InitFocus /\ LifeIdle /\ NestIdle /\ PushIdle

SpecFocus == FocusInit /\ [][NextFocus]_vars

\* ----------------------------------------------------------- properties
\* C1: an overlay is pushed if and only if at least one of the overlays nested
\* directly under it is currently open.
PushedIffChildOpen ==
  \A p \in Overlays :
    drawers[p].mounted =>
      (drawers[p].pushed <=>
         \E c \in Overlays :
           ParentOf(c) = p /\ drawers[c].mounted /\ drawers[c].open)

\* C8: the resolved pushDistance is 0 when push is false; otherwise the
\* distance of the push object when it has one; otherwise the pushDistance of
\* the nearest ancestor context when it supplies one; otherwise 180.
PushDistanceOrder ==
  /\ push.k = "false" => pushDistance = Num(0)
  /\ (push.k = "object" /\ push.distance # Undefined)
       => pushDistance = push.distance
  /\ (push.k \in {"true", "undefined"}
        \/ (push.k = "object" /\ push.distance = Undefined))
       => IF parentContext.k = "context" /\ parentContext.pushDistance # Undefined
            THEN pushDistance = parentContext.pushDistance
            ELSE pushDistance = Num(180)
  /\ push = [k |-> "object", distance |-> Num(40)] => pushDistance = Num(40)
  /\ (push.k = "true" /\ parentContext = [k |-> "context", pushDistance |-> Num(120)])
       => pushDistance = Num(120)
  /\ (push.k = "undefined" /\ parentContext.k = "null") => pushDistance = Num(180)

\* push = {distance: 0} rendered under an ancestor that supplies 120.
ExplicitZeroUnderAncestor ==
  /\ push = [k |-> "object", distance |-> Num(0)]
  /\ parentContext = [k |-> "context", pushDistance |-> Num(120)]
  /\ pushDistance = Num(0)

\* C2: an instance never calls lock() while the lock it took is still held,
\* that is without one of its own unLock() calls since its previous lock().
NoDoubleLock == [][Has(calls', "lock") => ~locked]_vars

\* C3: a completion report whose visibility differs from the `open` that is
\* current when it arrives is discarded: no afterOpenChange, no unLock.
StaleReportDiscarded ==
  (alive /\ lastEvent.kind = "report" /\ lastEvent.v # props.open)
    => calls = <<>>

\* C4: teardown calls unLock() and pull() once each (when the collaborator is
\* supplied); afterwards the instance holds no lock and its parent is not
\* pushed.
TeardownReleases ==
  ~alive =>
    /\ calls = (IF props.scrollLocker THEN <<"unLock">> ELSE <<>>) \o
               (IF props.parentContext THEN <<"pull">> ELSE <<>>)
    /\ ~locked
    /\ ~parentPushed

\* Torn down while open behind a mask, the lock held and the parent pushed.
TeardownWhileOpen ==
  /\ ~alive /\ props.open /\ props.mask
  /\ props.scrollLocker /\ props.parentContext
  /\ calls = <<"unLock", "pull">>

\* The last report completed the requested enter run and nothing is in flight.
SettledVisible ==
  /\ pending = <<>>
  /\ panel.status = "Visible"
  /\ lastEvent = Event("report", TRUE)
  /\ Has(calls, "afterOpenChange(true)")

\* C5: while `open` is true the panel is never Hidden nor unmounted, and when
\* reports are in flight and `open` stays true the panel eventually settles
\* in Visible with afterOpenChange(true) invoked.
ReopenSettles ==
  /\ [](alive /\ props.open => panel.mounted /\ panel.status # "Hidden")
  /\ (alive /\ props.open /\ props.afterOpenChange /\ pending # <<>>)
       ~> (~(alive /\ props.open) \/ SettledVisible)

\* `open` went true, false, true before any completion was reported.
ReopenedBeforeCompletion ==
  /\ alive /\ props.open /\ props.afterOpenChange
  /\ pending = <<TRUE, FALSE, TRUE>>
  /\ panel.status = "Entering"

\* C6: the panel is mounted whenever `open` is true, for every placement and
\* with or without forceRender.
PanelMountedWhenOpen == alive /\ props.open => panel.mounted

\* Opened by a flip of `open`, without forceRender.
OpenedWithoutForceRender ==
  /\ alive /\ props.open /\ ~props.forceRender
  /\ lastEvent = Event("props", TRUE)
  /\ panel.mounted

\* C7: lock() is called once exactly when (open && mask) goes from false to
\* true, mount included, and at no other time; unLock() is called once when
\* the panel finishes a leave transition, and once on teardown.
LockDiscipline ==
  /\ Count(calls, "lock")
       = IF props.open /\ props.mask /\ props.scrollLocker THEN 1 ELSE 0
  /\ [][LET was == alive /\ props.open /\ props.mask
            is == alive' /\ props'.open /\ props'.mask
        IN /\ Count(calls', "lock")
                = IF ~was /\ is /\ props'.scrollLocker THEN 1 ELSE 0
           /\ (alive' /\ panel.status = "Leaving" /\ panel'.status = "Hidden"
                 /\ props.scrollLocker)
                => Count(calls', "unLock") = 1
           /\ (alive /\ ~alive' /\ props.scrollLocker)
                => Count(calls', "unLock") = 1]_vars

\* The panel finished its leave transition and the lock was released.
LeaveReleasedLock ==
  /\ alive /\ props.scrollLocker /\ props.mask
  /\ lastEvent = Event("report", FALSE)
  /\ panel.status = "Hidden"
  /\ calls[Len(calls)] = "unLock"

\* C9: on a TAB key inside the overlay the handler moves the focus from the
\* end sentinel to the start sentinel without shift, from the start sentinel
\* to the end sentinel with shift, and leaves it where it is otherwise.
TabHandlerMoves ==
  (keyEvent.keyCode = "TAB" /\ Inside(focusBefore)) =>
    /\ (~keyEvent.shiftKey /\ focusBefore.el = "sentinelEnd")
         => handlerFocus.el = "sentinelStart"
    /\ (keyEvent.shiftKey /\ focusBefore.el = "sentinelStart")
         => handlerFocus.el = "sentinelEnd"
    /\ (~(~keyEvent.shiftKey /\ focusBefore.el = "sentinelEnd")
          /\ ~(keyEvent.shiftKey /\ focusBefore.el = "sentinelStart"))
         => handlerFocus = focusBefore

\* Tab without shift was pressed on the end sentinel.
TabOnEndSentinel ==
  /\ keyEvent = [keyCode |-> "TAB", shiftKey |-> FALSE]
  /\ focusBefore = El("sentinelEnd")
  /\ handlerFocus = El("sentinelStart")

\* C10: while the overlay is open, a Tab or Shift+Tab pressed with the focus
\* inside the overlay root leaves the focus inside the overlay root.
FocusNeverEscapes ==
  (focusProps.open /\ keyEvent.keyCode = "TAB" /\ Inside(focusBefore))
    => Inside(activeElement)

\* C11: an ESC key pressed inside the overlay calls onClose exactly once, with
\* the event, when keyboard closing is enabled (and onClose is supplied), not
\* at all when it is disabled, and changes nothing else.
EscClosesOnce ==
  [][(keyEvent'.keyCode = "ESC" /\ Inside(activeElement)) =>
       /\ closeCalls' = IF focusProps.keyboard /\ focusProps.onClose
                          THEN <<keyEvent'>> ELSE <<>>
       /\ activeElement' = activeElement
       /\ focusProps' = focusProps
       /\ nContent' = nContent]_vars

\* ESC was pressed inside the overlay with keyboard closing enabled.
EscClosed ==
  /\ keyEvent.keyCode = "ESC"
  /\ Inside(focusBefore)
  /\ focusProps.keyboard /\ focusProps.onClose
  /\ closeCalls = <<keyEvent>>

\* C12: the wrapper offset is a function of (pushed, pushDistance, placement):
\* pushed with a nonzero distance d gives +d on Y for top, -d on Y for bottom,
\* +d on X for left and -d on X for right; not pushed, or a distance of 0 (in
\* particular push = false), gives no offset.
WrapperOffset ==
  /\ (pushed /\ pushDistance.v # 0) =>
       wrapperStyle =
         [axis |-> IF placement \in {"top", "bottom"} THEN "Y" ELSE "X",
          px |-> IF placement \in {"top", "left"}
                   THEN pushDistance.v ELSE 0 - pushDistance.v]
  /\ (~pushed \/ pushDistance = Num(0)) => wrapperStyle = NoTransform
  /\ push.k = "false" => wrapperStyle = NoTransform

\* A bottom overlay pushed by 180.
BottomPushedUp ==
  /\ pushed /\ placement = "bottom" /\ pushDistance = Num(180)
  /\ wrapperStyle = [axis |-> "Y", px |-> -180]

\* C13: a push config with a non-numeric distance resolves to the default
\* distance: the ancestor's value, or 180.
MalformedDistanceFallsBack ==
  (push.k = "object" /\ push.distance.t = "string") =>
    pushDistance =
      IF parentContext.k = "context" /\ parentContext.pushDistance # Undefined
        THEN parentContext.pushDistance
        ELSE Num(180)

\* C14: an open or close flip of an overlay changes no `pushed` flag other
\* than that of its immediate parent.
OneHopPush ==
  [][\A i \in Overlays :
       (drawers[i].mounted /\ drawers'[i].mounted
          /\ drawers'[i].open # drawers[i].open)
         => \A j \in Overlays :
              j # ParentOf(i) => drawers'[j].pushed = drawers[j].pushed]_vars

\* The innermost overlay of the chain 1 - 2 - 4 is open: overlay 2 is pushed,
\* overlay 1 is not.
InnermostOpen ==
  /\ drawers[4].mounted /\ drawers[4].open
  /\ drawers[2].pushed /\ ~drawers[2].open
  /\ drawers[1].mounted /\ ~drawers[1].pushed

\* C19: mounting a nested overlay that is closed does not change the `pushed`
\* flag of its parent (pull() is only called on a close or an unmount).
ClosedMountLeavesParent ==
  [][\A i \in Overlays :
       (~drawers[i].mounted /\ drawers'[i].mounted /\ ~drawers'[i].open
          /\ ParentOf(i) # 0)
         => drawers'[ParentOf(i)].pushed = drawers[ParentOf(i)].pushed]_vars

\* The value the chain above and including overlay i determines: 0 at the
\* nearest overlay with push = false, the distance at the nearest overlay with
\* an explicit distance, 180 when there is neither.
RECURSIVE ChainDistance(_)
ChainDistance(i) ==
  IF i = 0 THEN Num(180)
  ELSE IF stack[i].push.k = "false" THEN Num(0)
  ELSE IF stack[i].push.k = "object" /\ stack[i].push.distance # Undefined
    THEN stack[i].push.distance
  ELSE ChainDistance(ParentOf(i))

\* C20: the pushDistance an overlay publishes in its context equals its own
\* resolved pushDistance, which is the value its nesting chain determines.
PublishedDistance ==
  \A i \in Overlays :
    drawers[i].mounted =>
      /\ stack[i].context = stack[i].pushDistance
      /\ stack[i].pushDistance = ChainDistance(i)

\* Overlay 4 takes the explicit distance of overlay 1 through overlay 2.
InheritedThroughChain ==
  /\ drawers[4].mounted
  /\ stack[1].push = [k |-> "object", distance |-> Num(40)]
  /\ stack[2].push.k = "undefined" /\ stack[4].push.k = "undefined"
  /\ stack[2].context = Num(40)
  /\ stack[4].pushDistance = Num(40)

\* C16: with autoFocus enabled, focus() is called on the root exactly once
\* when `open` goes to true (mounting open included) and by no other event.
FocusOncePerOpen ==
  /\ focusProps.autoFocus => focusCalls = IF focusProps.open THEN 1 ELSE 0
  /\ [][(focusProps.autoFocus /\ focusProps'.autoFocus) =>
          focusCalls' = IF ~focusProps.open /\ focusProps'.open THEN 1 ELSE 0]_vars

\* The overlay was opened again while the focus was on the panel content.
RefocusedOnOpen ==
  /\ focusProps.open /\ focusProps.autoFocus
  /\ focusCalls = 1
  /\ focusBefore.el = "content"
  /\ activeElement = El("root")

\* C15: once mounted the panel element stays mounted through every close and
\* leave completion for as long as the instance lives, whereas the mask
\* element is unmounted whenever its leave transition completes.
PanelRetainedMaskRemoved ==
  [][/\ (alive /\ alive' /\ panel.mounted) => panel'.mounted
     /\ (alive' /\ maskEl.status = "Leaving" /\ maskEl'.status = "Hidden")
          => ~maskEl'.mounted]_vars

\* After a close both leave transitions completed: the panel is retained,
\* the mask is gone.
ClosedPanelRetained ==
  /\ alive /\ ~props.open /\ ~props.forceRender /\ props.mask
  /\ panel.status = "Hidden" /\ panel.mounted
  /\ maskEl.status = "Hidden" /\ ~maskEl.mounted
  /\ lastEvent.kind \in {"report", "maskSettle"}

\* C17: no call is made through an absent collaborator, and every event makes
\* the calls it owes to the collaborators that are supplied.
AbsentCollaboratorsNoOp ==
  /\ (Has(calls, "lock") \/ Has(calls, "unLock")) => props.scrollLocker
  /\ (Has(calls, "push") \/ Has(calls, "pull")) => props.parentContext
  /\ (Has(calls, "afterOpenChange(true)") \/ Has(calls, "afterOpenChange(false)"))
       => props.afterOpenChange
  /\ Has(calls, "onClose") => props.onClose
  /\ lastEvent.kind \in {"mount", "props"} =>
       /\ Has(calls, "push") <=> (props.parentContext /\ props.open)
       /\ Has(calls, "pull") <=> (props.parentContext /\ ~props.open)
       /\ Has(calls, "lock")
            <=> (props.scrollLocker /\ props.open /\ props.mask)
  /\ lastEvent.kind = "mask" =>
       Has(calls, "lock") <=> (props.scrollLocker /\ props.open /\ props.mask)
  /\ lastEvent.kind = "report" =>
       /\ Has(calls, IF lastEvent.v THEN "afterOpenChange(true)"
                                    ELSE "afterOpenChange(false)")
            <=> props.afterOpenChange
       /\ Has(calls, "unLock") <=> (props.scrollLocker /\ ~lastEvent.v)
  /\ lastEvent.kind = "unmount" =>
       /\ Has(calls, "unLock") <=> props.scrollLocker
       /\ Has(calls, "pull") <=> props.parentContext
  /\ lastEvent.kind = "esc" =>
       Has(calls, "onClose") <=> (props.onClose /\ props.keyboard)
  /\ lastEvent.kind = "maskClick" =>
       Has(calls, "onClose") <=> (props.onClose /\ props.maskClosable)

\* A leave completion handled without afterOpenChange: the lock is released.
LeaveReportWithoutCallback ==
  /\ alive /\ ~props.afterOpenChange /\ ~props.parentContext
  /\ props.scrollLocker
  /\ lastEvent = Event("report", FALSE)
  /\ calls = <<"unLock">>

\* C18: with a scroll locker, the lock is held in every state in which `open`
\* and `mask` are both true.
LockHeldWhileOpenMasked ==
  (alive /\ props.scrollLocker /\ props.open /\ props.mask) => locked

====
